---- MODULE Spec2Model ----
(***************************************************************************)
(* A model of the block-diagram simulator in src/src/main.rs: the          *)
(* SimulatorApp state (components, connections, next_id, simulation_data), *)
(* the operations add_component and connect_components, and simulate,      *)
(* whose for-loop body (one Topo walk over the graph) is one action.       *)
(*                                                                         *)
(* f32 values are modelled in fixed point: the integer v stands for        *)
(* v / One.  A value the fixed point cannot hold exactly (a product with   *)
(* 0.1 that leaves a remainder, a magnitude above MaxAbs) becomes Lost,    *)
(* which every operation propagates, as a NaN would.                       *)
(***************************************************************************)
EXTENDS Integers, Sequences, FiniteSets, TLC

\* ------------------------------------------------------------------ bounds

\* Largest number of components the application is given.
MaxNodes == 2

\* Largest number of components in the specification of three-node graphs.
MaxNodesWide == 3

\* Largest number of edges the application is given.
MaxEdges == 2

\* Largest number of simulate calls.
MaxRuns == 2

\* Largest number of simulate calls in the specification of three-node graphs.
MaxRunsWide == 1

\* Largest number of components in the specification of the click handler.
MaxNodesUI == 2

\* Largest magnitude of a tracked value (in units of 1 / One).
MaxAbs == 100000000

\* ------------------------------------------------------------------ values

\* The f32 constant 1.0 (the Step output, the PID reference).
One == 10000

\* let steps = 100;
steps == 100

\* A value the fixed point does not track.
Lost == MaxAbs + 1

Abs(a) == IF a < 0 THEN -a ELSE a

Norm(a) == IF Abs(a) > MaxAbs THEN Lost ELSE a

\* a + b
Add(a, b) == IF a = Lost \/ b = Lost THEN Lost ELSE Norm(a + b)

\* a - b
Sub(a, b) == IF a = Lost \/ b = Lost THEN Lost ELSE Norm(a - b)

\* a * time_step and alpha * a, with time_step = alpha = 0.1
TimesTenth(a) ==
    IF a = Lost THEN Lost
    ELSE IF a % 10 = 0 THEN a \div 10 ELSE Lost

\* a / time_step, with time_step = 0.1
DivTenth(a) ==
    IF a = Lost THEN Lost
    ELSE IF Abs(a) > MaxAbs \div 10 THEN Lost ELSE a * 10

\* k * a for a gain k (a whole number of units)
Gain(k, a) == IF a = Lost THEN Lost ELSE Norm(k * a)

\* ------------------------------------------------------------------ types

Step == [kind |-> "Step"]
TransferFunction == [kind |-> "TransferFunction"]
Scope == [kind |-> "Scope"]
Delay(n) == [kind |-> "Delay", delay_steps |-> n]
Difference == [kind |-> "Difference"]
DiscreteDerivative == [kind |-> "DiscreteDerivative"]
DiscreteIntegrator == [kind |-> "DiscreteIntegrator"]
PIDController(kp, ki, kd) == [kind |-> "PIDController", kp |-> kp, ki |-> ki, kd |-> kd]
Memory == [kind |-> "Memory"]

\* The delay lengths and the PID gains the model adds components with.
DelaySteps == {0, 3}
Gains == {<<1, 1, 1>>}

ComponentType ==
    {Step, TransferFunction, Scope, Difference, DiscreteDerivative,
     DiscreteIntegrator, Memory}
    \cup {Delay(n) : n \in DelaySteps}
    \cup {PIDController(g[1], g[2], g[3]) : g \in Gains}

\* The component types of the specification of three-node graphs.
WideTypes == {Step, Scope, DiscreteIntegrator}

\* The component types the toolbar of update has a button for.
ToolbarTypes == {Step, TransferFunction, Scope}

\* ------------------------------------------------------------------ state

VARIABLES
    components,         \* HashMap<usize, Component>: id -> component_type
    nodes,              \* connections: node weights, node index i at nodes[i + 1]
    edges,              \* connections: <<from index, to index>>, in order of addition
    next_id,
    selected_component, \* Option<usize>
    simulation_data,    \* Vec<f32>
    pc,                 \* "idle", "running" (inside simulate) or "panicked"
    step,               \* simulate: the loop variable (steps once the loop is over)
    component_outputs,  \* simulate: its local HashMap<usize, f32>
    order,              \* component ids topo.next returned in the latest step
    inputs,             \* id -> what get_input_value returned in the latest step
    prev_inputs,        \* inputs of the step before the latest
    prev_outputs,       \* component_outputs as the latest step found it
    runs,               \* simulate calls made
    call,               \* the connect_components call just made, or NoCall
    reference           \* the trace and the order of the latest completed run,
                        \* while the graph is as that run found it; else NoRef

vars ==
    <<components, nodes, edges, next_id, simulation_data, pc, step,
      component_outputs, order, inputs, prev_inputs, prev_outputs, runs, call,
      selected_component, reference>>

app == <<components, nodes, edges, next_id>>
locals == <<step, component_outputs, order, inputs, prev_inputs, prev_outputs>>

Empty == [k \in {} |-> 0]

NoCall == [op |-> "none"]
Connect(from, to) == [op |-> "connect_components", from |-> from, to |-> to]

\* Option<usize>
None == [some |-> FALSE]
Some(id) == [some |-> TRUE, id |-> id]

NoRef == [known |-> FALSE]
Ref(data, seen) == [known |-> TRUE, data |-> data, order |-> seen]

\* map.get(&k).unwrap_or(&d)
GetOr(map, k, d) == IF k \in DOMAIN map THEN map[k] ELSE d

\* map.insert(k, v)
Insert(map, k, v) == [x \in DOMAIN map \cup {k} |-> IF x = k THEN v ELSE map[x]]

\* connections.node_indices()
NodeIndices == 0 .. Len(nodes) - 1

\* connections[node_idx]
Weight(node_idx) == nodes[node_idx + 1]

\* ------------------------------------------------------------------ graph

\* The node indices in increasing order, as node_indices() yields them.
IndexSeq == [i \in 1 .. Len(nodes) |-> i - 1]

\* The edges in the order petgraph walks an adjacency list: latest edge first.
RECURSIVE Reverse(_)
Reverse(s) == IF s = <<>> THEN <<>> ELSE Append(Reverse(Tail(s)), Head(s))

\* connections.neighbors(nix): the target of every edge out of nix, latest first
\* (a parallel edge gives its target again).
Neighbors(nix) ==
    LET out == SelectSeq(Reverse(edges), LAMBDA e : e[1] = nix)
    IN  [i \in 1 .. Len(out) |-> out[i][2]]

\* neighbors_directed(node_idx, Incoming) giving each source once, however many
\* edges it has into node_idx.
IncomingNeighborsDistinct(node_idx) ==
    LET into == SelectSeq(Reverse(edges), LAMBDA e : e[2] = node_idx)
        first == {i \in 1 .. Len(into) : \A j \in 1 .. i - 1 : into[j] # into[i]}
        kept == SelectSeq([i \in 1 .. Len(into) |-> <<i, into[i][1]>>],
                          LAMBDA x : x[1] \in first)
    IN  [i \in 1 .. Len(kept) |-> kept[i][2]]

\* connections.neighbors_directed(node_idx, Incoming): the source of every edge
\* into node_idx, latest first.
IncomingNeighbors(node_idx) ==
    LET into == SelectSeq(Reverse(edges), LAMBDA e : e[2] = node_idx)
    IN  [i \in 1 .. Len(into) |-> into[i][1]]

\* node_indices().find(|n| connections[*n] == component_id): the indices found.
FindByWeight(component_id) == {n \in NodeIndices : Weight(n) = component_id}

Min(S) == CHOOSE x \in S : \A y \in S : x <= y

\* The loop of get_input_value: input_sum over the remaining neighbours.
RECURSIVE SumOutputs(_, _, _)
SumOutputs(neighbours, outs, input_sum) ==
    IF neighbours = <<>> THEN input_sum
    ELSE LET neighbor == Head(neighbours)
         IN  SumOutputs(Tail(neighbours), outs,
                        IF Weight(neighbor) \in DOMAIN outs
                        THEN Add(input_sum, outs[Weight(neighbor)])
                        ELSE input_sum)

\* get_input_value reading the map as the step found it, not the one passed in.
get_input_value_stale(component_id, outs) ==
    IF FindByWeight(component_id) = {} THEN 0
    ELSE SumOutputs(IncomingNeighbors(Min(FindByWeight(component_id))),
                    component_outputs, 0)

get_input_value(component_id, outs) ==
    IF FindByWeight(component_id) = {} THEN 0
    ELSE SumOutputs(IncomingNeighbors(Min(FindByWeight(component_id))), outs, 0)

\* ------------------------------------------------------------------ simulate

\* The arms of the match of simulate on component_type that give an output.
\* prev is component_outputs.get(&component_id), prev_error and prev_integral
\* the entries of component_id + 1 and component_id + 2, each with its default.
step_output == One

transfer_function_output(input_value, prev_output) ==
    Add(prev_output, TimesTenth(Sub(input_value, prev_output)))

\* The Difference arm taking 0 for the previous value.
difference_output_from_zero(input_value, prev_value) == Sub(input_value, 0)

difference_output(input_value, prev_value) == Sub(input_value, prev_value)

discrete_derivative_output(input_value, prev_value) ==
    DivTenth(Sub(input_value, prev_value))

\* The integrator arm without the factor time_step.
discrete_integrator_output_no_dt(input_value, prev_value) ==
    Add(prev_value, input_value)

discrete_integrator_output(input_value, prev_value) ==
    Add(prev_value, TimesTenth(input_value))

pid_controller_output(kp, ki, kd, input_value, prev_error, prev_integral) ==
    LET error == Sub(One, input_value)
        integral == Add(prev_integral, TimesTenth(error))
        derivative == DivTenth(Sub(error, prev_error))
    IN  Add(Add(Gain(kp, error), Gain(ki, integral)), Gain(kd, derivative))

memory_output(input_value, outs, component_id) ==
    GetOr(outs, component_id, input_value)

Output(component_id, ty, input_value, outs) ==
    CASE ty.kind = "Step" -> step_output
      [] ty.kind = "TransferFunction" ->
            transfer_function_output(input_value, GetOr(outs, component_id, 0))
      [] ty.kind = "Difference" ->
            difference_output(input_value, GetOr(outs, component_id, input_value))
      [] ty.kind = "DiscreteDerivative" ->
            discrete_derivative_output(input_value,
                                       GetOr(outs, component_id, input_value))
      [] ty.kind = "DiscreteIntegrator" ->
            discrete_integrator_output(input_value, GetOr(outs, component_id, 0))
      [] ty.kind = "PIDController" ->
            pid_controller_output(ty.kp, ty.ki, ty.kd, input_value,
                                  GetOr(outs, component_id + 1, 0),
                                  GetOr(outs, component_id + 2, 0))
      [] ty.kind = "Memory" -> memory_output(input_value, outs, component_id)

\* The Scope arm storing the sample as the output of the Scope as well.
scope_arm_writes_output(st, seen, component_id, input_value) ==
    [st EXCEPT !.seen = seen,
               !.ins = Insert(st.ins, component_id, input_value),
               !.outs = Insert(st.outs, component_id, input_value),
               !.data = Append(st.data, input_value)]

\* The Scope arm: simulation_data.push(input_value); continue.
scope_arm(st, seen, component_id, input_value) ==
    [st EXCEPT !.seen = seen,
               !.ins = Insert(st.ins, component_id, input_value),
               !.data = Append(st.data, input_value)]

\* The body of `while let Some(node_idx) = topo.next(..)` for one node. st holds
\* what the step has done so far: outs (component_outputs), data
\* (simulation_data), ins (the input values computed), seen (the ids visited)
\* and panicked.
Visit(node_idx, st) ==
    LET component_id == Weight(node_idx)
        seen == Append(st.seen, component_id)
    IN  IF component_id \notin DOMAIN components THEN [st EXCEPT !.seen = seen]
        ELSE LET ty == components[component_id]
                 input_value == get_input_value(component_id, st.outs)
             IN  CASE ty.kind = "Step" ->
                        [st EXCEPT !.seen = seen,
                                   !.outs = Insert(st.outs, component_id, step_output)]
                   [] ty.kind = "Scope" ->
                        scope_arm(st, seen, component_id, input_value)
                   [] ty.kind = "Delay" ->
                        [st EXCEPT !.seen = seen, !.panicked = TRUE]
                   [] OTHER ->
                        [st EXCEPT !.seen = seen,
                                   !.ins = Insert(st.ins, component_id, input_value),
                                   !.outs = Insert(st.outs, component_id,
                                       Output(component_id, ty, input_value, st.outs))]

\* Topo::new: the nodes without an incoming edge, pushed in index order.
TopoNew == SelectSeq(IndexSeq, LAMBDA a : IncomingNeighbors(a) = <<>>)

\* What Topo::next pushes after it has ordered nix: every neighbour all of
\* whose incoming neighbours are ordered.
TopoPush(nix, ordered) ==
    SelectSeq(Neighbors(nix),
              LAMBDA neigh : \A i \in 1 .. Len(IncomingNeighbors(neigh)) :
                                 IncomingNeighbors(neigh)[i] \in ordered)

\* The while loop of one step: Topo::next pops tovisit until it is empty,
\* skipping the nodes already ordered; the loop body visits what it returns.
RECURSIVE TopoWalk(_, _, _)
TopoWalk(tovisit, ordered, st) ==
    IF tovisit = <<>> THEN st
    ELSE LET nix == tovisit[Len(tovisit)]
             rest == SubSeq(tovisit, 1, Len(tovisit) - 1)
         IN  IF nix \in ordered THEN TopoWalk(rest, ordered, st)
             ELSE LET visited == Visit(nix, st)
                  IN  IF visited.panicked THEN visited
                      ELSE TopoWalk(rest \o TopoPush(nix, ordered \cup {nix}),
                                    ordered \cup {nix}, visited)

\* One iteration of `for step in 0..steps`.
StepResult ==
    TopoWalk(TopoNew, {},
             [outs |-> component_outputs, data |-> simulation_data,
              ins |-> Empty, seen |-> <<>>, panicked |-> FALSE])

\* ------------------------------------------------------------------ actions

Init ==
    /\ components = Empty
    /\ nodes = <<>>
    /\ edges = <<>>
    /\ next_id = 0
    /\ simulation_data = <<>>
    /\ pc = "idle"
    /\ step = 0
    /\ component_outputs = Empty
    /\ order = <<>>
    /\ inputs = Empty
    /\ prev_inputs = Empty
    /\ prev_outputs = Empty
    /\ runs = 0
    /\ call = NoCall
    /\ selected_component = None
    /\ reference = NoRef

\* add_component without self.next_id += 1.
add_component_same_id(component_type) ==
    /\ pc = "idle"
    /\ components' = Insert(components, next_id, component_type)
    /\ next_id' = next_id
    /\ nodes' = Append(nodes, next_id)
    /\ call' = NoCall
    /\ reference' = NoRef
    /\ UNCHANGED <<edges, selected_component, simulation_data, pc, locals, runs>>

\* add_component(component_type, position); the position and is_dragging of the
\* Component play no part in the engine and are left out.
add_component(component_type) ==
    /\ pc = "idle"
    /\ components' = Insert(components, next_id, component_type)
    /\ next_id' = next_id + 1
    /\ nodes' = Append(nodes, next_id)
    /\ call' = NoCall
    /\ reference' = NoRef
    /\ UNCHANGED <<edges, selected_component, simulation_data, pc, locals, runs>>

\* connect_components adding the edge the wrong way round.
connect_components_swapped(from, to) ==
    /\ pc = "idle"
    /\ IF from \in NodeIndices /\ to \in NodeIndices
       THEN edges' = Append(edges, <<to, from>>)
       ELSE UNCHANGED edges
    /\ reference' = IF edges' = edges THEN reference ELSE NoRef
    /\ call' = Connect(from, to)
    /\ UNCHANGED <<components, nodes, next_id, simulation_data, pc, locals, runs>>

\* connect_components(from, to); selected_component is its caller's to set.
connect_components(from, to) ==
    /\ pc = "idle"
    /\ IF from \in NodeIndices /\ to \in NodeIndices
       THEN edges' = Append(edges, <<from, to>>)
       ELSE UNCHANGED edges
    /\ reference' = IF edges' = edges THEN reference ELSE NoRef
    /\ call' = Connect(from, to)
    /\ UNCHANGED <<components, nodes, next_id, simulation_data, pc, locals, runs>>

\* simulate without simulation_data.clear().
simulate_begin_keeps_data ==
    /\ pc = "idle"
    /\ runs' = runs + 1
    /\ simulation_data' = simulation_data
    /\ pc' = "running"
    /\ step' = 0
    /\ component_outputs' = Empty
    /\ order' = <<>>
    /\ inputs' = Empty
    /\ prev_inputs' = Empty
    /\ prev_outputs' = Empty
    /\ call' = NoCall
    /\ UNCHANGED <<app, selected_component, reference>>

\* simulate dropping the selection as it starts.
simulate_begin_deselects ==
    /\ pc = "idle"
    /\ runs' = runs + 1
    /\ simulation_data' = <<>>
    /\ pc' = "running"
    /\ step' = 0
    /\ component_outputs' = Empty
    /\ order' = <<>>
    /\ inputs' = Empty
    /\ prev_inputs' = Empty
    /\ prev_outputs' = Empty
    /\ call' = NoCall
    /\ selected_component' = None
    /\ UNCHANGED <<app, reference>>

\* simulate, up to the for loop: simulation_data.clear() and the new HashMap.
simulate_begin ==
    /\ pc = "idle"
    /\ runs' = runs + 1
    /\ simulation_data' = <<>>
    /\ pc' = "running"
    /\ step' = 0
    /\ component_outputs' = Empty
    /\ order' = <<>>
    /\ inputs' = Empty
    /\ prev_inputs' = Empty
    /\ prev_outputs' = Empty
    /\ call' = NoCall
    /\ UNCHANGED <<app, selected_component, reference>>

\* simulate: one iteration of the for loop; todo!() in the Delay arm panics.
simulate_step ==
    /\ pc = "running"
    /\ step < steps
    /\ LET r == StepResult
       IN  /\ simulation_data' = r.data
           /\ component_outputs' = r.outs
           /\ order' = r.seen
           /\ inputs' = r.ins
           /\ prev_inputs' = inputs
           /\ prev_outputs' = component_outputs
           /\ pc' = IF r.panicked THEN "panicked" ELSE "running"
           /\ step' = IF r.panicked THEN step ELSE step + 1
    /\ UNCHANGED <<app, selected_component, runs, call, reference>>

\* simulate: the loop is over and the call returns, dropping its locals.
simulate_return ==
    /\ pc = "running"
    /\ step = steps
    /\ pc' = "idle"
    /\ step' = 0
    /\ component_outputs' = Empty
    /\ order' = <<>>
    /\ inputs' = Empty
    /\ prev_inputs' = Empty
    /\ prev_outputs' = Empty
    /\ reference' = Ref(simulation_data, order)
    /\ UNCHANGED <<app, selected_component, simulation_data, runs, call>>

\* update: a click on the rectangle of component id. With a component selected
\* it clears the selection and, if that is another component, connects the two;
\* with none selected it selects id.
click(id) ==
    /\ pc = "idle"
    /\ id \in DOMAIN components
    /\ IF selected_component.some
       THEN /\ selected_component' = None
            /\ IF selected_component.id # id
               THEN /\ Len(edges) < MaxEdges
                    /\ connect_components(selected_component.id, id)
               ELSE /\ call' = NoCall
                    /\ UNCHANGED <<app, simulation_data, pc, locals, runs, reference>>
       ELSE /\ selected_component' = Some(id)
            /\ call' = NoCall
            /\ UNCHANGED <<app, simulation_data, pc, locals, runs, reference>>

\* The ids connect_components is called with: the live ones and one unknown.
Ids == 0 .. Len(nodes)

Next ==
    \/ \E ty \in ComponentType : Len(nodes) < MaxNodes /\ add_component(ty)
    \/ \E from \in Ids, to \in Ids :
           /\ Len(edges) < MaxEdges
           /\ connect_components(from, to)
           /\ UNCHANGED selected_component
    \/ runs < MaxRuns /\ simulate_begin
    \/ simulate_step
    \/ simulate_return

Spec == Init /\ [][Next]_vars

\* The same application, given up to MaxNodesWide components of WideTypes.
NextWide ==
    \/ \E ty \in WideTypes : Len(nodes) < MaxNodesWide /\ add_component(ty)
    \/ \E from \in Ids, to \in Ids :
           /\ Len(edges) < MaxEdges
           /\ connect_components(from, to)
           /\ UNCHANGED selected_component
    \/ runs < MaxRunsWide /\ simulate_begin
    \/ simulate_step
    \/ simulate_return

SpecWide == Init /\ [][NextWide]_vars

\* The application as update drives it: the three buttons that add a component,
\* the clicks that select and connect, and Run Simulation.
NextUI ==
    \/ \E ty \in ToolbarTypes : Len(nodes) < MaxNodesUI /\ add_component(ty)
    \/ \E id \in DOMAIN components : click(id)
    \/ runs < MaxRunsWide /\ simulate_begin
    \/ simulate_step
    \/ simulate_return

SpecUI == Init /\ [][NextUI]_vars

TypeOK ==
    /\ pc \in {"idle", "running", "panicked"}
    /\ step \in 0 .. steps
    /\ next_id = Len(nodes)

\* ------------------------------------------------------------------ claims

LiveIds == DOMAIN components

EdgeSet == {edges[i] : i \in 1 .. Len(edges)}

Range(s) == {s[i] : i \in 1 .. Len(s)}

\* The position of x in the sequence s (0 when it is not there).
Pos(s, x) == IF x \in Range(s) THEN Min({i \in 1 .. Len(s) : s[i] = x}) ELSE 0

\* The node holding component id.
NodeOf(id) == Min(FindByWeight(id))

KindOf(id) == components[id].kind

\* The nodes of N reached from S along edges inside N, in at most k more steps.
RECURSIVE ReachIn(_, _, _)
ReachIn(S, N, k) ==
    LET next == S \cup {e[2] : e \in {f \in EdgeSet : f[1] \in S /\ f[2] \in N}}
    IN  IF k = 0 \/ next = S THEN S ELSE ReachIn(next, N, k - 1)

\* Some directed cycle lies inside the set N of nodes.
HasCycle(N) ==
    \E n \in N :
        n \in ReachIn({e[2] : e \in {f \in EdgeSet : f[1] = n /\ f[2] \in N}},
                      N, Cardinality(N))

\* The nodes of the components that hold no state between steps.
StatelessNodes == {n \in NodeIndices : KindOf(Weight(n)) \in {"Step", "Scope"}}

\* The sum of the entries of map over the inbound edges of component id, an
\* edge whose producer has no entry counting 0.
RECURSIVE SumOver(_, _)
SumOver(producers, map) ==
    IF producers = <<>> THEN 0
    ELSE LET rest == SumOver(SubSeq(producers, 1, Len(producers) - 1), map)
             p == Weight(producers[Len(producers)])
         IN  IF p \in DOMAIN map THEN Add(rest, map[p]) ELSE rest

InboundSum(id, map) == SumOver(IncomingNeighbors(NodeOf(id)), map)

\* The producers of component id: the ids with an edge into it.
Producers(id) == {Weight(e[1]) : e \in {f \in EdgeSet : f[2] = NodeOf(id)}}

\* A step of the run has been walked, to its end or to a panic.
StepWalked == pc = "panicked" \/ (pc = "running" /\ step > 0)

\* The index of the step walked latest.
LatestStep == IF pc = "panicked" THEN step ELSE step - 1

\* How often the run has visited component id.
Visits(id) == IF pc = "panicked" /\ id \in Range(order) THEN step + 1 ELSE step

\* order holds every live component exactly once, every producer before its
\* consumers.
TopologicalOrder ==
    /\ Len(order) = Cardinality(LiveIds)
    /\ Range(order) = LiveIds
    /\ \A e \in EdgeSet : Pos(order, Weight(e[1])) < Pos(order, Weight(e[2]))

\* C1: on a graph without a directed cycle, the order every step of simulate
\* visits the components in holds every live component exactly once, each
\* producer before its consumers.
C1_TopologicalOrderEveryStep ==
    (~HasCycle(NodeIndices) /\ StepWalked) => TopologicalOrder

\* The same of the steps simulate walks to their end; the steps C1 fails on are
\* the ones the Delay arm panics in.
TopologicalOrderOfCompletedSteps ==
    (~HasCycle(NodeIndices) /\ pc = "running" /\ step > 0) => TopologicalOrder

C3_CycleReported ==
    (HasCycle(StatelessNodes) /\ pc = "running" /\ step > 0)
        => Range(order) = LiveIds

\* C4: once the loop of simulate is over, simulation_data holds one sample per
\* step for every Scope of the graph and nothing else.
C4_OneSamplePerStepPerScope ==
    (pc = "running" /\ step = steps) =>
        Len(simulation_data)
            = steps * Cardinality({id \in LiveIds : KindOf(id) = "Scope"})

\* C5: simulate runs its steps to the last one, whatever the graph: it never
\* aborts.
C5_NeverAborts == pc # "panicked" /\ (pc = "running" => step <= steps)

\* C6: connect_components never fails; given two live ids it appends one edge
\* from the node holding `from` to the node holding `to`, given an unknown id it
\* changes nothing; the nodes and the components stay as they are either way.
C6_ConnectComponents ==
    [][call'.op = "connect_components" =>
          /\ pc' = "idle"
          /\ UNCHANGED <<components, nodes, next_id>>
          /\ IF call'.from \in LiveIds /\ call'.to \in LiveIds
             THEN edges' = Append(edges, <<NodeOf(call'.from), NodeOf(call'.to)>>)
             ELSE edges' = edges]_vars

\* connect_components was called with an unknown id on a graph that an earlier
\* call had given the edge 1 -> 0.
C6_Witness ==
    /\ call.op = "connect_components"
    /\ call.from \in LiveIds
    /\ call.to \notin LiveIds
    /\ edges = <<(<<1, 0>>)>>

\* C7: a Delay(n) the run visits gets an output: 0 while the step index is
\* below n, and its summed input when n = 0; visiting it does not fail.
C7_DelayOutput ==
    \A d \in LiveIds :
        (KindOf(d) = "Delay" /\ StepWalked /\ d \in Range(order)) =>
            /\ pc # "panicked"
            /\ d \in DOMAIN component_outputs
            /\ LatestStep < components[d].delay_steps => component_outputs[d] = 0
            /\ components[d].delay_steps = 0
                   => component_outputs[d] = InboundSum(d, component_outputs)

\* C8: at every step t > 0, the output of a Memory is the input it received at
\* step t-1.
C8_MemoryOutputsPreviousInput ==
    (pc = "running" /\ step >= 2) =>
        \A m \in DOMAIN component_outputs \cap DOMAIN prev_inputs :
            KindOf(m) = "Memory" => component_outputs[m] = prev_inputs[m]

\* The summed input of component id is the same at every step: all its inbound
\* edges (one at least) come from Step components.
FedBySteps(id) ==
    /\ Producers(id) # {}
    /\ \A p \in Producers(id) : KindOf(p) = "Step"

\* C9: a Difference whose summed input is the same constant at every step
\* outputs 0 at every step.
C9_DifferenceOfConstantIsZero ==
    \A d \in DOMAIN component_outputs :
        (KindOf(d) = "Difference" /\ FedBySteps(d)) => component_outputs[d] = 0

\* Component id has one inbound edge, and it comes from a Step.
FedByOneStep(id) ==
    /\ Len(IncomingNeighbors(NodeOf(id))) = 1
    /\ FedBySteps(id)

\* C10: a DiscreteIntegrator fed by one Step holds k * 0.1 after its k-th step,
\* and so 10.0 after the 100 steps of a run.
C10_IntegratorOfOne ==
    \A i \in DOMAIN component_outputs :
        (KindOf(i) = "DiscreteIntegrator" /\ FedByOneStep(i)) =>
            /\ 10 * component_outputs[i] = Visits(i) * One
            /\ (pc = "running" /\ step = steps) => component_outputs[i] = 10 * One

\* The loop is over and an integrator fed by one Step holds 10.0.
C10_Witness ==
    /\ pc = "running"
    /\ step = steps
    /\ \E i \in DOMAIN component_outputs :
           /\ KindOf(i) = "DiscreteIntegrator"
           /\ FedByOneStep(i)
           /\ component_outputs[i] = 10 * One

\* The components of kind k.
OfKind(k) == {id \in LiveIds : KindOf(id) = k}

\* C11 for the first two steps of a run, where the controller's own previous
\* error and integral follow from the inputs it was given: a PIDController
\* outputs kp*e + ki*I + kd*D with I its own integral of the step before plus
\* e*dt and D = (e - its own error of the step before)/dt, both 0 before step 0.
C11_PIDKeepsOwnState ==
    \A p \in OfKind("PIDController") \cap DOMAIN component_outputs :
        LET ty == components[p]
        IN  /\ (pc = "running" /\ step = 1) =>
                  component_outputs[p]
                      = pid_controller_output(ty.kp, ty.ki, ty.kd, inputs[p], 0, 0)
            /\ (pc = "running" /\ step = 2) =>
                  LET error0 == Sub(One, prev_inputs[p])
                  IN  component_outputs[p]
                          = pid_controller_output(ty.kp, ty.ki, ty.kd, inputs[p],
                                                  error0, TimesTenth(error0))

\* C12: a simulate call on the graph the call before it ran on visits the
\* components in the same order at every step and builds the same trace, step
\* by step; and the order does not change from one step of a run to the next.
C12_RunsRepeat ==
    /\ [](reference.known =>
            /\ pc # "panicked"
            /\ pc = "running" =>
                  /\ step > 0 => order = reference.order
                  /\ Len(simulation_data) <= Len(reference.data)
                  /\ simulation_data
                         = SubSeq(reference.data, 1, Len(simulation_data))
                  /\ step = steps => simulation_data = reference.data)
    /\ [][(pc = "running" /\ pc' = "running" /\ step > 0 /\ step' > step)
              => order' = order]_vars

\* The second run on an unchanged graph is over; it visited two components and
\* its trace holds a sample above 0.
C12_Witness ==
    /\ reference.known
    /\ pc = "running"
    /\ step = steps
    /\ Len(order) = 2
    /\ simulation_data # <<>>
    /\ simulation_data[Len(simulation_data)] > 0

\* C13: the ids in the nodes of connections are the keys of components, no id
\* twice, in increasing order, all below next_id.
C13_NodesAreLiveIds ==
    /\ Range(nodes) = DOMAIN components
    /\ Cardinality(Range(nodes)) = Len(nodes)
    /\ \A i, j \in 1 .. Len(nodes) : i < j => nodes[i] < nodes[j]
    /\ \A id \in LiveIds : id < next_id

\* Two components and an edge, after a simulate call has returned.
C13_Witness ==
    /\ pc = "idle"
    /\ runs > 0
    /\ Len(nodes) = 2
    /\ edges # <<>>

\* C14: a Step has the output 1.0 after every step of a run, whatever edges
\* lead into it.
C14_StepOutputsOne ==
    (pc = "running" /\ step > 0) =>
        \A s \in OfKind("Step") :
            s \in DOMAIN component_outputs /\ component_outputs[s] = One

\* What holds of a Step instead: the output it has, if any, is 1.0.
StepOutputIsOneIfAny ==
    \A s \in OfKind("Step") \cap DOMAIN component_outputs : component_outputs[s] = One

\* The nodes of the components that are not a Memory.
NodesButMemory == {n \in NodeIndices : KindOf(Weight(n)) # "Memory"}

\* C15, for the state-holding component of its example: on a graph all of whose
\* cycles pass through a Memory, every step visits every component exactly
\* once, and every Scope records a sample per step.
C15_FeedbackThroughState ==
    (~HasCycle(NodesButMemory) /\ pc = "running" /\ step > 0) =>
        /\ Range(order) = LiveIds
        /\ Len(order) = Cardinality(LiveIds)
        /\ Len(simulation_data) = step * Cardinality(OfKind("Scope"))

\* C16, against the run in which no other component writes an output: a
\* PIDController without inbound edges (no component has a path to it, its
\* input is 0 at every step) has the output it has in that run, whatever the
\* other components are.
C16_PIDIndependentOfOthers ==
    \A p \in OfKind("PIDController") \cap DOMAIN component_outputs :
        IncomingNeighbors(NodeOf(p)) = <<>> =>
            component_outputs[p]
                = pid_controller_output(components[p].kp, components[p].ki,
                                        components[p].kd, 0, 0, 0)

\* C17: no step of simulate changes components, connections, next_id or
\* selected_component.
C17_SimulateFrame ==
    [][(pc = "running" \/ pc' = "running" \/ pc' = "panicked")
           => UNCHANGED <<components, nodes, edges, next_id, selected_component>>]_vars

\* The loop of a run is over on a graph with an edge, a component is selected
\* and the trace is not empty.
C17_Witness ==
    /\ pc = "running"
    /\ step = steps
    /\ selected_component.some
    /\ edges # <<>>
    /\ simulation_data # <<>>

\* C18: at step 0 of a run a Difference and a DiscreteDerivative output 0.0,
\* whatever their summed input.
C18_ZeroAtStepZero ==
    (StepWalked /\ LatestStep = 0) =>
        \A d \in (OfKind("Difference") \cup OfKind("DiscreteDerivative"))
                 \cap DOMAIN component_outputs :
            component_outputs[d] = 0

\* Step 0 is over and a Difference or DiscreteDerivative had an input other
\* than 0 in it.
C18_Witness ==
    /\ pc = "running"
    /\ step = 1
    /\ \E d \in (OfKind("Difference") \cup OfKind("DiscreteDerivative"))
                \cap DOMAIN component_outputs :
           inputs[d] # 0 /\ component_outputs[d] = 0

\* The Scopes the latest step visited, in the order it visited them.
ScopesVisited == SelectSeq(order, LAMBDA id : KindOf(id) = "Scope")

\* The sum of the outputs over the inbound edges of component id that do not
\* come from a Scope.
RECURSIVE SumOverNonScope(_, _)
SumOverNonScope(producers, map) ==
    IF producers = <<>> THEN 0
    ELSE LET rest == SumOverNonScope(SubSeq(producers, 1, Len(producers) - 1), map)
             p == Weight(producers[Len(producers)])
         IN  IF KindOf(p) # "Scope" /\ p \in DOMAIN map THEN Add(rest, map[p]) ELSE rest

\* C19: a Scope never has an entry in component_outputs, each step appends the
\* summed input of every Scope it visits to simulation_data, and an edge out of
\* a Scope adds nothing to its consumer's summed input.
C19_ScopeRecordsAndWritesNothing ==
    /\ OfKind("Scope") \cap DOMAIN component_outputs = {}
    /\ StepWalked =>
          /\ Len(simulation_data) >= Len(ScopesVisited)
          /\ \A i \in 1 .. Len(ScopesVisited) :
                 simulation_data[Len(simulation_data) - Len(ScopesVisited) + i]
                     = inputs[ScopesVisited[i]]
          /\ \A c \in DOMAIN inputs :
                 inputs[c] = SumOverNonScope(IncomingNeighbors(NodeOf(c)),
                                             component_outputs)

\* A Scope recorded an input above 0 and has an edge to a consumer whose summed
\* input is 0.
C19_Witness ==
    /\ pc = "running"
    /\ step > 0
    /\ \E sc \in OfKind("Scope") \cap DOMAIN inputs :
           /\ inputs[sc] > 0
           /\ \E c \in DOMAIN inputs : sc \in Producers(c) /\ inputs[c] = 0

\* The number of edges of es from node a to node b.
EdgeCount(es, a, b) == Cardinality({i \in 1 .. Len(es) : es[i] = <<a, b>>})

\* The sum over the producers in P of their output times the number of their
\* edges into component c.
RECURSIVE CountedSum(_, _)
CountedSum(c, P) ==
    IF P = {} THEN 0
    ELSE LET p == Min(P)
         IN  Add(Gain(EdgeCount(edges, NodeOf(p), NodeOf(c)),
                      GetOr(component_outputs, p, 0)),
                 CountedSum(c, P \ {p}))

\* C20: each connect_components call on two live ids adds one more edge between
\* them, a second call a parallel edge; the summed input of a consumer counts a
\* producer's output once per edge.
C20_ParallelEdgesCount ==
    /\ [](StepWalked =>
            \A c \in DOMAIN inputs : inputs[c] = CountedSum(c, Producers(c)))
    /\ [][(call'.op = "connect_components"
             /\ call'.from \in LiveIds /\ call'.to \in LiveIds)
          => EdgeCount(edges', NodeOf(call'.from), NodeOf(call'.to))
                 = EdgeCount(edges, NodeOf(call'.from), NodeOf(call'.to)) + 1]_vars

\* Two parallel edges lead from a producer to a consumer whose summed input is
\* twice the producer's output.
C20_Witness ==
    /\ pc = "running"
    /\ step > 0
    /\ Len(edges) = 2
    /\ edges[1] = edges[2]
    /\ edges[1][1] # edges[1][2]
    /\ Weight(edges[1][2]) \in DOMAIN inputs
    /\ component_outputs[Weight(edges[1][1])] > 0
    /\ inputs[Weight(edges[1][2])] = 2 * component_outputs[Weight(edges[1][1])]

====
